---- MODULE Spec2Model ----
(***************************************************************************)
(* A model of the index pipeline of src/index_model: the end-of-month      *)
(* flags, the rank-based weights, the daily returns, the T-2 index return  *)
(* and the compounded index level, as pandas computes them.                *)
(*                                                                         *)
(* A DataFrame is its DatetimeIndex (index, a strictly increasing sequence *)
(* of day numbers) and a function from column names to columns (df).  A    *)
(* float is an exact fraction <<n, d>> with d > 0, or one of the IEEE      *)
(* specials NaN = <<0,0>>, +inf = <<1,0>>, -inf = <<-1,0>>; rounding is    *)
(* not modelled.  Row i of the code (0-based) is row i+1 here.             *)
(***************************************************************************)
EXTENDS Integers, Sequences, FiniteSets, TLC

VARIABLES
    index,      \* df.index: the trading calendar
    df,         \* the DataFrame's columns
    result_df,  \* self.result_df: the series the last calc_index_level returned
    err,        \* the exception the last call raised, "none" if it returned
    call,       \* the last call and its arguments, <<>> before the first
    ncalls      \* the number of calc_index_level calls made

vars == <<index, df, result_df, err, call, ncalls>>

----------------------------------------------------------------------------
(* Bounds of the model. *)

MaxLen == 3
DaysPerMonth == 2
MaxCalls == 2

\* self.stocks: the 'Stock_' columns of the price table, in column order.
stocks == <<"Stock_A", "Stock_B", "Stock_C", "Stock_D">>

\* Dates are day numbers; there is one more date than the longest calendar
\* has rows, so that a calendar can skip a date.
Dates == 0..MaxLen


----------------------------------------------------------------------------
(* Floats. *)

NaN == <<0, 0>>
PosInf == <<1, 0>>
NegInf == <<-1, 0>>
Num(n) == <<n, 1>>

isna(x) == x = NaN
IsFinite(x) == x[2] # 0
IsZero(x) == x[2] # 0 /\ x[1] = 0
Abs(n) == IF n < 0 THEN -n ELSE n
Sign(n) == IF n < 0 THEN -1 ELSE IF n > 0 THEN 1 ELSE 0

GCD[a \in Nat, b \in Nat] == IF b = 0 THEN a ELSE GCD[b, a % b]

\* n/d with the common factor g taken out.
Reduce[n \in Int, d \in Int, g \in Int] == <<(Abs(n) \div g) * Sign(n), d \div g>>

\* The fraction n/d, d > 0, in lowest terms.
Frac[n \in Int, d \in Int] == Reduce[n, d, GCD[Abs(n), d]]

\* The floats: every fraction and the three specials.
Float == Int \X Int

\* The arithmetic is IEEE's: x + y, x * y and x / y.
Add[x \in Float, y \in Float] ==
    IF isna(x) \/ isna(y) THEN NaN
    ELSE IF ~IsFinite(x) /\ ~IsFinite(y) THEN (IF x = y THEN x ELSE NaN)
    ELSE IF ~IsFinite(x) THEN x
    ELSE IF ~IsFinite(y) THEN y
    ELSE Frac[x[1] * y[2] + y[1] * x[2], x[2] * y[2]]

Mul[x \in Float, y \in Float] ==
    IF isna(x) \/ isna(y) THEN NaN
    ELSE IF ~IsFinite(x) \/ ~IsFinite(y)
         THEN (IF IsZero(x) \/ IsZero(y) THEN NaN
               ELSE <<Sign(x[1]) * Sign(y[1]), 0>>)
    ELSE Frac[x[1] * y[1], x[2] * y[2]]

\* x / y for a divisor that is not negative (prices are not).
Div[x \in Float, y \in Float] ==
    IF isna(x) \/ isna(y) THEN NaN
    ELSE IF ~IsFinite(x) /\ ~IsFinite(y) THEN NaN
    ELSE IF ~IsFinite(x) THEN x
    ELSE IF ~IsFinite(y) THEN Num(0)
    ELSE IF IsZero(y) THEN (IF IsZero(x) THEN NaN ELSE <<Sign(x[1]), 0>>)
    ELSE Frac[x[1] * y[2], x[2] * y[1]]

\* x > y for two floats that are not NaN.
Greater(x, y) ==
    IF ~IsFinite(x) \/ ~IsFinite(y)
    THEN (IF x = y THEN FALSE ELSE x = PosInf \/ y = NegInf)
    ELSE x[1] * y[2] > y[1] * x[2]

----------------------------------------------------------------------------
(* Column names. *)

PriceCol(s) == <<s, "">>
WeightCol(s) == <<s, "_Weight">>
ReturnCol(s) == <<s, "_Return">>
EOM_Flag == <<"", "EOM_Flag">>
Index_Return == <<"", "Index_Return">>
Index_Level == <<"", "Index_Level">>

Range(seq) == {seq[i] : i \in DOMAIN seq}
Rows == 1..Len(index)

\* df with the columns of new added or replaced.
Assign(d, new) == new @@ d

\* The outcome of a call: a value, or an exception.
Ok(v) == [raised |-> "none", value |-> v]
Raise(e) == [raised |-> e, value |-> <<>>]

----------------------------------------------------------------------------
(* index_utils.calculate_eom_flag *)

\* The month a date falls in (pd.Grouper(freq='M')): months have DaysPerMonth
\* days, and day 0 is the last day of its month.
MonthOf(date) == (date + DaysPerMonth - 1) \div DaysPerMonth

\* group.index.min() in place of group.index.max(): the earliest date of the
\* month's group.
group_first_date(idx, period) ==
    CHOOSE date \in Range(idx) :
        /\ MonthOf(date) = period
        /\ \A i \in DOMAIN idx : MonthOf(idx[i]) = period => date <= idx[i]

\* group.index.max(): the latest date of the month's group.
group_last_date(idx, period) ==
    CHOOSE date \in Range(idx) :
        /\ MonthOf(date) = period
        /\ \A i \in DOMAIN idx : MonthOf(idx[i]) = period => idx[i] <= date

calculate_eom_flag(idx, d) ==
    LET periods == {MonthOf(idx[i]) : i \in DOMAIN idx}
        last_dates == {group_last_date(idx, period) : period \in periods}
        flag == [i \in DOMAIN idx |-> IF idx[i] \in last_dates THEN 1 ELSE 0]
    IN  Assign(d, EOM_Flag :> flag)

----------------------------------------------------------------------------
(* IndexModel.calculate_weights *)

\* df['EOM_Flag'].cumsum()
cumsum(col) ==
    LET acc[i \in 0..Len(col)] == IF i = 0 THEN 0 ELSE acc[i - 1] + col[i]
    IN  [i \in DOMAIN col |-> acc[i]]

PositionIn(seq, x) == CHOOSE k \in DOMAIN seq : seq[k] = x

\* The stocks of rest that can come next in a descending sort: a priced
\* stock no other priced stock of rest beats or, when none is priced, the
\* first of rest in the order of st.
next_ranked(st, prices, rest) ==
    IF \E s \in rest : ~isna(prices[s])
    THEN {s \in rest : /\ ~isna(prices[s])
                       /\ \A u \in rest : isna(prices[u])
                                            \/ ~Greater(prices[u], prices[s])}
    ELSE {s \in rest : \A u \in rest : PositionIn(st, s) <= PositionIn(st, u)}

\* The orders a descending sort can put the stocks of rest in.
RECURSIVE ranked_from(_, _, _)
ranked_from(st, prices, rest) ==
    IF rest = {} THEN {<<>>}
    ELSE UNION {{<<s>> \o tail : tail \in ranked_from(st, prices, rest \ {s})} :
                   s \in next_ranked(st, prices, rest)}

\* prices.sort_values(ascending=False): the orders the sort can return.  The
\* priced stocks come first, by descending price; pandas puts the stocks with
\* a NaN price last, in their original order.  The sort is numpy's quicksort,
\* which is not stable, so stocks of equal price come in either order.
sort_values_descending(st, prices) == ranked_from(st, prices, Range(st))

\* ranked.index[:3]
top_3(ranked) == SubSeq(ranked, 1, IF Len(ranked) < 3 THEN Len(ranked) ELSE 3)

\* The weight of lines 71-76 for a stock, given the period's top_3.
rank_weight(top, s) ==
    IF Len(top) > 0 /\ top[1] = s THEN <<1, 2>>
    ELSE IF Len(top) > 1 /\ top[2] = s THEN <<1, 4>>
    ELSE IF Len(top) > 2 /\ top[3] = s THEN <<1, 4>>
    ELSE Num(0)

\* row[stocks].astype(float): the prices of row i.
row_prices(d, st, i) == [s \in Range(st) |-> d[PriceCol(s)][i]]

\* The loop of line 62 sorts each rebalancing row's prices: the rankings it
\* can find, one for each rebalancing row.
RECURSIVE rank_choices(_, _, _)
rank_choices(d, st, rebalance_rows) ==
    IF rebalance_rows = {} THEN {<<>>}
    ELSE LET a == CHOOSE a \in rebalance_rows : \A b \in rebalance_rows : a <= b
         IN  {(a :> ranked) @@ rest :
                 ranked \in sort_values_descending(st, row_prices(d, st, a)),
                 rest \in rank_choices(d, st, rebalance_rows \ {a})}

\* Lines 62-76: the weight columns, given each rebalancing row's ranking.
\* Row i is in the period mask of the rebalancing row a with Period[a] =
\* Period[i]; a row before the first rebalancing row is in none.
period_weights(idx, st, Period, rebalance_rows, ranked) ==
    [c \in {WeightCol(s) : s \in Range(st)} |->
        [i \in DOMAIN idx |->
            IF \E a \in rebalance_rows : Period[a] = Period[i]
            THEN LET a == CHOOSE a \in rebalance_rows : Period[a] = Period[i]
                 IN  rank_weight(top_3(ranked[a]), c[1])
            ELSE Num(0)]]

\* The DataFrames calculate_weights(df, stocks) can return, one for each way
\* the sorts of the rebalancing rows can come out.
weights_outcomes(idx, d, st, Period, rebalance_rows) ==
    {Ok(Assign(d, period_weights(idx, st, Period, rebalance_rows, ranked))) :
        ranked \in rank_choices(d, st, rebalance_rows)}

calculate_weights(idx, d, st) ==
    IF EOM_Flag \notin DOMAIN d THEN {Raise("KeyError")}
    ELSE weights_outcomes(idx, d, st, cumsum(d[EOM_Flag]),
                          {i \in DOMAIN idx : d[EOM_Flag][i] = 1})

----------------------------------------------------------------------------
(* index_utils.calculate_daily_returns *)

\* Series.ffill(): pct_change fills a missing price with the last one before
\* it (fill_method='pad', the default of every pandas that accepts freq='M').
ffill(col) ==
    LET f[i \in DOMAIN col] ==
            IF isna(col[i]) /\ i > 1 THEN f[i - 1] ELSE col[i]
    IN  f

\* Series.pct_change()
pct_change(col) ==
    LET data == ffill(col)
    IN  [i \in DOMAIN col |->
            IF i = 1 THEN NaN ELSE Add[Div[data[i], data[i - 1]], Num(-1)]]

\* fillna(0)
fillna(x) == IF isna(x) THEN Num(0) ELSE x

calculate_daily_returns(d, st) ==
    Assign(d, [c \in {ReturnCol(s) : s \in Range(st)} |->
                  LET rs == pct_change(d[PriceCol(c[1])])
                  IN  [i \in DOMAIN rs |-> fillna(rs[i])]])

----------------------------------------------------------------------------
(* index_utils.calculate_index_return *)

\* The weights of the row before in place of those of two rows before.
t_minus_1(i) == i - 1

\* The row of the weights used for row i (Python rows i - 1 and i - 1 - 2).
t_minus_2(i) == i - 2

\* np.dot(weights, current_returns) over the stocks of st, in order.
dot(d, st, wrow, rrow) ==
    LET acc[k \in 0..Len(st)] ==
            IF k = 0 THEN Num(0)
            ELSE Add[acc[k - 1],
                     Mul[d[WeightCol(st[k])][wrow], d[ReturnCol(st[k])][rrow]]]
    IN  acc[Len(st)]

calculate_index_return(idx, d, st) ==
    IF \E s \in Range(st) : ReturnCol(s) \notin DOMAIN d THEN Raise("KeyError")
    ELSE IF Len(idx) > 2 /\ \E s \in Range(st) : WeightCol(s) \notin DOMAIN d
    THEN Raise("KeyError")
    ELSE Ok(Assign(d, Index_Return :>
                [i \in DOMAIN idx |->
                    IF i <= 2 THEN Num(0) ELSE dot(d, st, t_minus_2(i), i)]))

----------------------------------------------------------------------------
(* index_utils.calculate_index_level *)

\* start_date=None
None == -1

\* get_indexer without method='bfill': the row of start_date itself, 0 for
\* pandas' -1 (start_date is not in the index).
get_indexer_exact(idx, start_date) ==
    IF \E i \in DOMAIN idx : idx[i] = start_date
    THEN CHOOSE i \in DOMAIN idx : idx[i] = start_date
    ELSE 0

\* df.index.get_indexer([start_date], method='bfill')[0], as a row number
\* from 1; 0 for pandas' -1 (no date at or after start_date).
get_indexer_bfill(idx, start_date) ==
    IF \E i \in DOMAIN idx : idx[i] >= start_date
    THEN CHOOSE i \in DOMAIN idx :
            /\ idx[i] >= start_date
            /\ \A j \in DOMAIN idx : idx[j] >= start_date => i <= j
    ELSE 0

\* The row the compounding starts at (lines 62-67).
start_idx(idx, start_date) ==
    IF start_date = None THEN 1
    ELSE IF get_indexer_bfill(idx, start_date) = 0 THEN Len(idx)
    ELSE get_indexer_bfill(idx, start_date)

\* The Index_Level column of lines 58 and 70-76.
compound(growth_factors, start) ==
    LET level[i \in DOMAIN growth_factors] ==
            IF i <= start THEN Num(100)
            ELSE Mul[level[i - 1], growth_factors[i]]
    IN  level

\* calculate_index_level without lines 58 and 70: the levels up to the start
\* row are those an earlier call left, when there are any.
calculate_index_level_incremental(idx, d, start_date) ==
    IF Index_Return \notin DOMAIN d THEN Raise("KeyError")
    ELSE IF Len(idx) = 0 THEN Raise("IndexError")
    ELSE LET start == start_idx(idx, start_date)
             level[i \in DOMAIN idx] ==
                 IF i <= start
                 THEN IF Index_Level \in DOMAIN d THEN d[Index_Level][i] ELSE Num(100)
                 ELSE Mul[level[i - 1], Add[Num(1), d[Index_Return][i]]]
         IN  Ok(Assign(d, Index_Level :> level))

calculate_index_level(idx, d, start_date) ==
    IF Index_Return \notin DOMAIN d THEN Raise("KeyError")
    ELSE IF Len(idx) = 0 THEN Raise("IndexError")
    ELSE Ok(Assign(d, Index_Level :>
                compound([i \in DOMAIN idx |-> Add[Num(1), d[Index_Return][i]]],
                         start_idx(idx, start_date))))

----------------------------------------------------------------------------
(* IndexModel *)

\* self.df.loc[start_date:, ['Index_Level']]: the slice with no end.
loc_slice_from_start(idx, d, start_date, end_date) ==
    LET rows == [i \in DOMAIN idx |-> <<idx[i], d[Index_Level][i]>>]
        FromStart(r) == start_date <= r[1]
    IN  SelectSeq(rows, FromStart)

\* self.df.loc[start_date:end_date, ['Index_Level']]: the rows whose date is
\* in [start_date, end_date], as pairs <<date, level>>.
loc_slice(idx, d, start_date, end_date) ==
    LET rows == [i \in DOMAIN idx |-> <<idx[i], d[Index_Level][i]>>]
        InRange(r) == start_date <= r[1] /\ r[1] <= end_date
    IN  SelectSeq(rows, InRange)

\* The strictly increasing sequences of dates of at most MaxLen dates.
Calendars ==
    UNION {{c \in [1..n -> Dates] : \A i \in 1..n : i > 1 => c[i - 1] < c[i]} :
              n \in 0..MaxLen}

\* The rows a price table is made of, a price or NaN (a missing price) for
\* each stock of stocks: distinct prices; a tie at the top and another
\* ranking; fewer than three prices, one of them 0.
PriceRows ==
    { <<Num(1), Num(2), Num(3), Num(4)>>,
      <<Num(4), Num(4), Num(2), Num(1)>>,
      <<NaN, Num(0), NaN, Num(2)>> }

\* The price tables over a calendar: pd.read_csv's DataFrame.
PriceTables(idx) ==
    {[c \in {PriceCol(s) : s \in Range(stocks)} |->
         [i \in DOMAIN idx |-> rows[i][PositionIn(stocks, c[1])]]] :
        rows \in [DOMAIN idx -> PriceRows]}

\* IndexModel.__init__: the DataFrames self.df can be after construction.
Constructed(idx, prices) ==
    {calculate_daily_returns(w.value, stocks) :
        w \in calculate_weights(idx, calculate_eom_flag(idx, prices), stocks)}

Init ==
    /\ index \in Calendars
    /\ \E prices \in PriceTables(index) : df \in Constructed(index, prices)
    /\ result_df = <<>>
    /\ err = "none"
    /\ call = <<>>
    /\ ncalls = 0

\* The dates a caller passes: any date of the range, or one past it.
ArgDates == Dates \cup {MaxLen + 1}

\* The end dates a caller passes: the first date and the last.
EndDates == {0, MaxLen}

\* IndexModel.calc_index_level(start_date, end_date)
calc_index_level(start_date, end_date) ==
    /\ ncalls < MaxCalls
    /\ ncalls' = ncalls + 1
    /\ call' = <<"calc_index_level", start_date, end_date>>
    /\ index' = index
    /\ \E r \in {calculate_index_return(index, df, stocks)} :
         IF r.raised # "none"
         THEN err' = r.raised /\ UNCHANGED <<df, result_df>>
         ELSE \E l \in {calculate_index_level(index, r.value, start_date)} :
                 IF l.raised # "none"
                 THEN err' = l.raised /\ df' = r.value /\ UNCHANGED result_df
                 ELSE /\ err' = "none"
                      /\ df' = l.value
                      /\ result_df' = loc_slice(index, l.value, start_date, end_date)

Next == \E start_date \in ArgDates, end_date \in EndDates :
            calc_index_level(start_date, end_date)

Spec == Init /\ [][Next]_vars

----------------------------------------------------------------------------
(* The functions of index_utils and calculate_weights, called one at a    *)
(* time, in any order, on a DataFrame that starts as the price table: the  *)
(* result replaces the DataFrame, an exception leaves it as it was.        *)

StageInit ==
    /\ index \in Calendars
    /\ df \in PriceTables(index)
    /\ result_df = <<>>
    /\ err = "none"
    /\ call = <<>>
    /\ ncalls = 0

\* The start dates a caller passes to calculate_index_level: its default, a
\* date of the range, and one past it.
StageStarts == {None, 1, MaxLen + 1}

\* df = f(df, ...), with outcome r.
Returns(r) ==
    /\ err' = r.raised
    /\ df' = IF r.raised = "none" THEN r.value ELSE df
    /\ UNCHANGED <<index, result_df, ncalls>>

call_calculate_eom_flag ==
    /\ call' = <<"calculate_eom_flag">>
    /\ Returns(Ok(calculate_eom_flag(index, df)))

call_calculate_weights ==
    /\ call' = <<"calculate_weights">>
    /\ \E r \in calculate_weights(index, df, stocks) : Returns(r)

call_calculate_daily_returns ==
    /\ call' = <<"calculate_daily_returns">>
    /\ Returns(Ok(calculate_daily_returns(df, stocks)))

call_calculate_index_return ==
    /\ call' = <<"calculate_index_return">>
    /\ \E r \in {calculate_index_return(index, df, stocks)} : Returns(r)

call_calculate_index_level(start_date) ==
    /\ call' = <<"calculate_index_level", start_date>>
    /\ \E r \in {calculate_index_level(index, df, start_date)} : Returns(r)

StageNext ==
    \/ call_calculate_eom_flag
    \/ call_calculate_weights
    \/ call_calculate_daily_returns
    \/ call_calculate_index_return
    \/ \E start_date \in StageStarts : call_calculate_index_level(start_date)

StageSpec == StageInit /\ [][StageNext]_vars

----------------------------------------------------------------------------
(* What the claims read of a state. *)

Stocks == Range(stocks)
Flag(i) == df[EOM_Flag][i]
Price(s, i) == df[PriceCol(s)][i]
Weight(s, i) == df[WeightCol(s)][i]
Return(s, i) == df[ReturnCol(s)][i]
Called == call # <<>>
Half == <<1, 2>>
Quarter == <<1, 4>>

\* The anchor dates (rows) at or before row i, and the latest of them.
AnchorsUpTo(i) == {a \in Rows : a <= i /\ Flag(a) = 1}
LatestAnchor(i) == CHOOSE a \in AnchorsUpTo(i) : \A b \in AnchorsUpTo(i) : b <= a

Priced(s, a) == ~isna(Price(s, a))
\* The stocks with a higher price than s on row a, and those with the same.
Higher(s, a) == {u \in Stocks : Priced(u, a) /\ Greater(Price(u, a), Price(s, a))}
Tied(s, a) == {u \in Stocks \ {s} : Price(u, a) = Price(s, a)}

\* The sum of the weights of row i.
TotalWeight(i) ==
    LET acc[k \in 0..Len(stocks)] ==
            IF k = 0 THEN Num(0) ELSE Add[acc[k - 1], Weight(stocks[k], i)]
    IN  acc[Len(stocks)]

\* The sum over the stocks of (weight on row w) x (daily return on row r).
WeightedReturn(w, r) ==
    LET acc[k \in 0..Len(stocks)] ==
            IF k = 0 THEN Num(0)
            ELSE Add[acc[k - 1], Mul[Weight(stocks[k], w), Return(stocks[k], r)]]
    IN  acc[Len(stocks)]

\* No trading date is in [start_date, end_date].
EmptyRange(start_date, end_date) ==
    ~\E i \in Rows : start_date <= index[i] /\ index[i] <= end_date

\* The row of the first trading date at or after start_date, the last row
\* when there is none.
ResolvedStart(start_date) ==
    IF \E i \in Rows : index[i] >= start_date
    THEN CHOOSE i \in Rows : /\ index[i] >= start_date
                             /\ \A j \in Rows : j < i => index[j] < start_date
    ELSE Len(index)

----------------------------------------------------------------------------
(* C1 *)

\* C1: after calculate_weights, a stock's weight on a date with no anchor at
\* or before it is 0; otherwise, with a the latest anchor at or before the
\* date, it is 0.5 if the stock has the highest price on a, 0.25 if it has
\* the second or third highest, and 0 otherwise (unpriced on a, or three
\* stocks priced higher).  Stocks of equal price are left to C10.
C1_WeightsByRank ==
    \A i \in Rows, s \in Stocks :
        IF AnchorsUpTo(i) = {} THEN Weight(s, i) = Num(0)
        ELSE LET a == LatestAnchor(i)
             IN  IF ~Priced(s, a) THEN Weight(s, i) = Num(0)
                 ELSE IF Cardinality(Higher(s, a)) >= 3 THEN Weight(s, i) = Num(0)
                 ELSE IF Tied(s, a) # {} THEN Weight(s, i) \in {Num(0), Quarter, Half}
                 ELSE IF Higher(s, a) = {} THEN Weight(s, i) = Half
                 ELSE Weight(s, i) = Quarter

----------------------------------------------------------------------------
(* C4 *)

\* C4: a stock with no price on the anchor date has weight 0 on every date of
\* the anchor's period; with fewer than 3 priced stocks the period's weights
\* sum to less than 1, and they sum to exactly 1 only when at least 3 stocks
\* are priced.
C4_MissingPriceExcluded ==
    \A i \in Rows :
        AnchorsUpTo(i) # {} =>
            LET a == LatestAnchor(i)
                ranked == {s \in Stocks : Priced(s, a)}
            IN  /\ \A s \in Stocks \ ranked : Weight(s, i) = Num(0)
                /\ Cardinality(ranked) < 3 => Greater(Num(1), TotalWeight(i))
                /\ Cardinality(ranked) >= 3 <=> TotalWeight(i) = Num(1)

----------------------------------------------------------------------------
(* C5 *)

\* C5: every daily return is a finite number: 0 on the first trading date, 0
\* when price[t] or price[t-1] is missing or price[t-1] is not positive, and
\* price[t]/price[t-1] - 1 otherwise.
C5_DailyReturns ==
    \A i \in Rows, s \in Stocks :
        /\ IsFinite(Return(s, i))
        /\ Return(s, i) =
              IF i = 1 THEN Num(0)
              ELSE IF \/ isna(Price(s, i))
                      \/ isna(Price(s, i - 1))
                      \/ ~Greater(Price(s, i - 1), Num(0))
                   THEN Num(0)
              ELSE Add[Div[Price(s, i), Price(s, i - 1)], Num(-1)]

----------------------------------------------------------------------------
(* C10 *)

\* C10: of two stocks with the same price on an anchor date, the one that
\* comes first in stocks takes the higher rank, so its weight is not the
\* smaller one.
C10_StableTieBreak ==
    \A a \in Rows :
        Flag(a) = 1 =>
            \A j, k \in DOMAIN stocks :
                (j < k /\ Priced(stocks[j], a)
                       /\ Price(stocks[j], a) = Price(stocks[k], a))
                    => ~Greater(Weight(stocks[k], a), Weight(stocks[j], a))

----------------------------------------------------------------------------
(* C6 *)

\* C6: for every month with a trading date, exactly one date of the month is
\* flagged, and it is the latest date of the month in the calendar (the only
\* one, if the month has a single trading date); an empty calendar has no
\* flags.
C6_OneFlagPerMonth ==
    /\ Len(df[EOM_Flag]) = Len(index)
    /\ \A i \in Rows :
          LET month == {j \in Rows : MonthOf(index[j]) = MonthOf(index[i])}
          IN  /\ Cardinality({j \in month : Flag(j) = 1}) = 1
              /\ Flag(i) \in {0, 1}
              /\ Flag(i) = 1 <=> \A j \in month : index[j] <= index[i]

\* A calendar with two dates in one month, the earlier one not flagged, and
\* a month with a single date.
C6_Witness ==
    /\ \E i, j \in Rows : /\ i < j
                          /\ MonthOf(index[i]) = MonthOf(index[j])
                          /\ Flag(i) = 0
                          /\ Flag(j) = 1
    /\ \E i \in Rows : /\ \A j \in Rows \ {i} : MonthOf(index[j]) # MonthOf(index[i])
                       /\ Flag(i) = 1

----------------------------------------------------------------------------
(* C2 *)

\* C2: once calculate_index_return has run, the index return is 0 on the
\* first two rows and, on every later row, the sum over the stocks of the
\* weight two rows earlier times the row's daily return.
C2_IndexReturnLag ==
    Index_Return \in DOMAIN df =>
        /\ Len(df[Index_Return]) = Len(index)
        /\ \A i \in Rows :
              df[Index_Return][i] =
                  IF i <= 2 THEN Num(0) ELSE WeightedReturn(i - 2, i)

\* An index return that is not 0, on a row whose weights of two rows and of
\* one row earlier differ.
C2_Witness ==
    /\ Index_Return \in DOMAIN df
    /\ \E i \in Rows :
          /\ i > 2
          /\ IsFinite(df[Index_Return][i])
          /\ df[Index_Return][i] # Num(0)
          /\ \E s \in Stocks : Weight(s, i - 2) # Weight(s, i - 1)

----------------------------------------------------------------------------
(* C3 *)

\* C3: after calc_index_level on a calendar that is not empty, no error was
\* raised, the index level is 100 on the row of the first trading date at or
\* after the start date (the last row if there is none), and on every later
\* row it is the level of the row before times (1 + the row's index return).
C3_IndexLevel ==
    (Called /\ Len(index) > 0) =>
        /\ err = "none"
        /\ LET p == ResolvedStart(call[2])
           IN  /\ df[Index_Level][p] = Num(100)
               /\ \A t \in Rows :
                     t > p => df[Index_Level][t] =
                                 Mul[df[Index_Level][t - 1],
                                     Add[Num(1), df[Index_Return][t]]]

\* A start date that is no trading date, with a later trading date, and a
\* level after it that has moved away from 100.
C3_Witness ==
    /\ Called
    /\ err = "none"
    /\ \A i \in Rows : index[i] # call[2]
    /\ \E i \in Rows : index[i] > call[2]
    /\ \E t \in Rows :
          /\ t > ResolvedStart(call[2])
          /\ IsFinite(df[Index_Level][t])
          /\ df[Index_Level][t] # Num(100)

----------------------------------------------------------------------------
(* C7 *)

\* C7, as claimed: calc_index_level raises an error whenever no trading date
\* is inside [start_date, end_date] (an empty or inverted range).
C7_RaisesOnEmptyRange ==
    (Called /\ EmptyRange(call[2], call[3])) => err # "none"

\* C7, amended: on a calendar that is not empty, calc_index_level with a
\* range that holds no trading date (empty or inverted) raises nothing and
\* returns an empty series.
C7_EmptyRangeReturnsEmpty ==
    (Called /\ Len(index) > 0 /\ EmptyRange(call[2], call[3])) =>
        (err = "none" /\ result_df = <<>>)

\* An inverted range whose start date has trading dates at or after it.
C7_Witness ==
    /\ Called
    /\ call[3] < call[2]
    /\ \E i \in Rows : index[i] >= call[2]
    /\ err = "none"
    /\ result_df = <<>>

----------------------------------------------------------------------------
(* C8 *)

\* self.df of a model just constructed over the same table: no Index_Return
\* and no Index_Level column.
FreshDf == [c \in DOMAIN df \ {Index_Return, Index_Level} |-> df[c]]

\* The series a model just constructed returns for its first call.
FirstCallResult(start_date, end_date) ==
    LET r == calculate_index_return(index, FreshDf, stocks)
        l == calculate_index_level(index, r.value, start_date)
    IN  loc_slice(index, l.value, start_date, end_date)

\* The series a call returns is the one a fresh model returns for the same
\* arguments, whatever calls came before.
C8_LastCallAsFresh ==
    (Called /\ err = "none") => result_df = FirstCallResult(call[2], call[3])

\* No call changes the prices, the flags, the weights or the daily returns.
C8_CallKeepsColumns ==
    \A c \in DOMAIN df \ {Index_Return, Index_Level} :
        c \in DOMAIN df' /\ df'[c] = df[c]

\* C8: compounding is not incremental across calls: in every state the series
\* of the last call is that of a fresh model's first call with the same
\* arguments, and every call keeps the weights and the daily returns.
C8_NotIncremental == []C8_LastCallAsFresh /\ [][C8_CallKeepsColumns]_vars

\* A second call that returns a series of two rows or more whose last level
\* is not 100.
C8_Witness ==
    /\ ncalls = 2
    /\ err = "none"
    /\ Len(result_df) >= 2
    /\ IsFinite(result_df[Len(result_df)][2])
    /\ result_df[Len(result_df)][2] # Num(100)

----------------------------------------------------------------------------
(* C9 *)

\* C9: calculate_index_level on a table with no Index_Return column ends in
\* an error, and so does calculate_index_return on a table that lacks a
\* stock's return column or weight column, whatever the calendar's length.
C9_StageOrder ==
    /\ (Called /\ call[1] = "calculate_index_level"
               /\ Index_Return \notin DOMAIN df) => err # "none"
    /\ (Called /\ call[1] = "calculate_index_return"
               /\ \E s \in Stocks : \/ ReturnCol(s) \notin DOMAIN df
                                    \/ WeightCol(s) \notin DOMAIN df)
           => err # "none"

====
